---------------------------- MODULE Spec2Model ----------------------------
(***************************************************************************)
(* The bucket executor of packages/dataplanner/src/engine/executeBucket.ts *)
(* as a state machine.                                                     *)
(*                                                                         *)
(* JavaScript runs one callback at a time, so one action of this module is *)
(* one uninterrupted turn of the executor: the call of executeBucket, or   *)
(* one promise callback (the onFulfilled / onRejected handlers of          *)
(* executeStep, the Promise.allSettled handler of completedStep, the       *)
(* handler that follows Promise.all(starterPromises)).  Everything such a  *)
(* turn calls synchronously (completedStep, reallyCompletedStep, the       *)
(* dispatch of the dependents and whatever they complete synchronously) is *)
(* part of the same action; the recursive operators below compute it on a  *)
(* record `st` holding the executor's state.                               *)
(*                                                                         *)
(* The futures of the steps and of the entries of their columns settle at  *)
(* times the executor does not control: the actions that run their         *)
(* handlers are enabled in any order.                                      *)
(***************************************************************************)
EXTENDS Integers, Sequences, FiniteSets, TLC

\* Largest bucket.size explored.
MaxSize == 2

\* The element of a set of one element.  The({e : x \in {v}}) is e with v for x, v being
\* computed once however often e uses x (a `const` of the source).
The(S) == CHOOSE y \in S : TRUE

VARIABLES
    layerPlan,       \* bucket.layerPlan: steps, dependencies, dependentPlans, startSteps, children
    steps,           \* per step: isSyncAndSafe and what its execute does
    size,            \* bucket.size
    store,           \* bucket.store: step id -> published column (domain = ids with a column)
    hasErrors,       \* bucket.hasErrors
    isComplete,      \* bucket.isComplete
    inProgressSteps, \* the closure's inProgressSteps
    pendingSteps,    \* the closure's pendingSteps
    phase,           \* per step: where its execution stands
    future,          \* per step: the settlement of the future executeStep awaits
    settling,        \* per step: the column handed to Promise.allSettled
    chained,         \* per step: the dependents whose promises its completion returned
    starterPromises, \* the start steps whose dispatch returned a promise
    outcome,         \* what executeBucket has given its caller so far
    handOffs,        \* history: number of times executeSamePhaseChildren was entered
    calls,           \* history: per step, number of invocations of step.execute
    dispatched       \* history: per step, what executeStep saw and passed when it ran

vars == <<layerPlan, steps, size, store, hasErrors, isComplete, inProgressSteps,
          pendingSteps, phase, future, settling, chained, starterPromises,
          outcome, handOffs, calls, dispatched>>

-----------------------------------------------------------------------------
(* Values of a column *)

\* The id of the column the bucket receives from its parent.
RootId == "R"

\* `undefined`: the entries of noDepsList, and what reading past the end of an array gives.
Undefined == [kind |-> "undefined"]

\* A plain value computed by step `by` for the row that entered the bucket at index `row`.
Val(by, row) == [kind |-> "val", by |-> by, row |-> row]

\* An Error object raised while running step `by`; `at` is the row whose entry rejected
\* (0: the step as a whole, -1: the executor's own complaint about the step's result).
Raised(by, at) == [thrownBy |-> by, at |-> at]

\* An entry that is a future.
PromiseOf(settles, payload) == [kind |-> "promise", settles |-> settles, payload |-> payload]

\* new _CrystalError(originalError): the constructor keeps the original error only.
\* Each wrapper wraps its own Error object, so originalError also tells wrappers apart.
CrystalError(originalError) == [kind |-> "err", originalError |-> originalError]

\* newCrystalError(error): the second argument its callers pass (step.id) is not a
\* parameter of the function and is dropped.
newCrystalError(error, planId) == CrystalError(error)

isCrystalError(v) == v.kind = "err"

\* Some entry of the column is an ErrorValue.
HoldsError(column) == \E i \in 1..Len(column) : isCrystalError(column[i])

isPromiseLike(v) == v.kind = "promise"

\* arrayOfLength(length, fill)
arrayOfLength(length, fill) == [i \in 1..length |-> fill]

\* What reading a property the object does not have gives.
OriginatingStepId(e) ==
    IF "originatingStepId" \in DOMAIN e THEN e.originatingStepId ELSE "undefined"

-----------------------------------------------------------------------------
(* Steps: the inputs of the executor *)

\* The behaviours of step.execute that are explored.  A step either raises, or returns a
\* future that rejects, or returns a column (directly, or through a future that fulfils).
\*   mode:  "sync" returns the column, "async" returns a future of it,
\*          "throw" raises inside execute, "reject" returns a future that rejects
\*   shape: the column's length is that of the input ("ok"), one less ("short")
\*          or one more ("long")
\*   entry, row: the entry at position `row` of the column is an ErrorValue ("err"),
\*          a future that fulfils ("pFul") or rejects ("pRej"); row 0: all entries plain
Columns(modes, shapes, entries, rows) ==
    [mode : modes, shape : shapes, entry : {"plain"}, row : {0}]
      \cup [mode : modes, shape : shapes, entry : entries, row : rows]

Faults == [mode : {"throw", "reject"}, shape : {"ok"}, entry : {"plain"}, row : {0}]

\* The row a step's input entry descends from: a value carries it, a placeholder or an
\* error stands at its own position.
RowOf(col, k) == IF k <= Len(col) /\ col[k].kind = "val" THEN col[k].row ELSE k

\* The column step `s` with behaviour `b` computes from the dependency columns `args`:
\* entry k is computed from entry k of the input, as a batched step does.
ColumnOf(s, b, args) ==
    LET n == Len(args[1])
        m == CASE b.shape = "ok"    -> n
               [] b.shape = "short" -> IF n > 0 THEN n - 1 ELSE 0
               [] b.shape = "long"  -> n + 1
        plain(k) == Val(s, RowOf(args[1], k))
    IN  [k \in 1..m |->
            IF k # b.row THEN plain(k)
            ELSE CASE b.entry = "plain" -> plain(k)
                   [] b.entry = "err"   -> CrystalError(Raised(s, k))
                   [] b.entry = "pFul"  -> PromiseOf("fulfilled", plain(k))
                   [] b.entry = "pRej"  -> PromiseOf("rejected", Raised(s, k))]

\* step.execute(args, extra): what the call gives back.  A column it cannot read (a
\* dependency without a column is `undefined`) makes the step raise.
Execute(s, b, args) ==
    IF \E i \in 1..Len(args) : ~args[i].defined
    THEN [t |-> "throw", error |-> Raised(s, 0)]
    ELSE The({
        CASE b.mode = "throw"  -> [t |-> "throw", error |-> Raised(s, 0)]
          [] b.mode = "reject" -> [t |-> "promise", ok |-> FALSE, error |-> Raised(s, 0)]
          [] b.mode = "sync"   -> [t |-> "column", col |-> ColumnOf(s, b, cols)]
          [] b.mode = "async"  -> [t |-> "promise", ok |-> TRUE, col |-> ColumnOf(s, b, cols)]
      : cols \in {[i \in 1..Len(args) |-> args[i].col]}})

-----------------------------------------------------------------------------
(* The executor's state as a record, and the helpers of executeBucket *)

\* The mutable state a turn of the executor works on; `ret` is what the last call returned:
\* "void", "promise" or "throw".
Current ==
    [store |-> store, hasErrors |-> hasErrors, inProgressSteps |-> inProgressSteps,
     pendingSteps |-> pendingSteps, phase |-> phase, future |-> future,
     settling |-> settling, chained |-> chained, calls |-> calls,
     dispatched |-> dispatched, ret |-> "void"]

\* store[id] = column; the assignments to store[id] are counted.
Publish(st, id, column) ==
    The({
        [b EXCEPT !.store = [d \in DOMAIN b.store \cup {id} |->
                                IF d = id THEN col ELSE b.store[d]],
                  !.dispatched[id].writes = @ + 1]
      : b \in {st}, col \in {column}})

\* bucket.noDepsList: a column of `size` placeholders.
noDepsList == arrayOfLength(size, Undefined)

\* Mutant of ErrorsOf: a later column's error replaces the one already kept.
ErrorsOfLast(dependencies) ==
    LET hit(index) == {i \in 1..Len(dependencies) :
                          index <= Len(dependencies[i]) /\ isCrystalError(dependencies[i][index])}
        indexes == {index \in UNION {DOMAIN dependencies[i] : i \in 1..Len(dependencies)} :
                       hit(index) # {}}
        last(index) == CHOOSE i \in hit(index) : \A j \in hit(index) : i >= j
    IN  [index \in indexes |-> dependencies[last(index)][index]]

\* errors[index]: the indexes at which some dependency column holds an error, each with the
\* error of the first column (in the order of `dependencies`) that has one there.
ErrorsOf(dependencies) ==
    LET hit(index) == {i \in 1..Len(dependencies) :
                          index <= Len(dependencies[i]) /\ isCrystalError(dependencies[i][index])}
        indexes == {index \in UNION {DOMAIN dependencies[i] : i \in 1..Len(dependencies)} :
                       hit(index) # {}}
        first(index) == CHOOSE i \in hit(index) : \A j \in hit(index) : i <= j
    IN  [index \in indexes |-> dependencies[first(index)][index]]

\* depList.filter((_, index) => !errors[index])
WithoutErrors(depList, errors) ==
    LET keep == {index \in 1..Len(depList) : index \notin DOMAIN errors}
        nth(k) == CHOOSE index \in keep : Cardinality({j \in keep : j < index}) = k - 1
    IN  [k \in 1..Cardinality(keep) |-> depList[nth(k)]]

\* Mutant of mergeErrorsBackIn: results[i] for results[resultIndex++].
mergeErrorsBackInByRow(results, errors, resultCount) ==
    [i \in 1..resultCount |->
        IF i \in DOMAIN errors THEN errors[i]
        ELSE IF i <= Len(results) THEN results[i]
        ELSE Undefined]

\* mergeErrorsBackIn(results, errors, resultCount)
mergeErrorsBackIn(results, errors, resultCount) ==
    The({
        LET resultIndex(i) == Cardinality({j \in 1..(i - 1) : j \notin DOMAIN errors}) + 1
        IN  [i \in 1..resultCount |->
                IF i \in DOMAIN errors THEN errors[i]
                ELSE IF resultIndex(i) <= Len(rs) THEN rs[resultIndex(i)]
                ELSE Undefined]
      : rs \in {results}})

\* reallyExecuteStepWithNoErrors(step, dependencies, extra): the arguments step.execute
\* receives and what it gives back.
reallyExecuteStepWithNoErrors(s, dependencies) ==
    [args |-> dependencies, result |-> Execute(s, steps[s].execute, dependencies)]

\* reallyExecuteStepWithErrors(step, dependencies, extra).  Reading the length of a
\* dependency that has no column raises before the step is called.
reallyExecuteStepWithErrors(s, dependencies) ==
    IF \E i \in 1..Len(dependencies) : ~dependencies[i].defined
    THEN [args |-> <<>>, result |-> [t |-> "throw", error |-> Raised(s, 0)]]
    ELSE
    The({ The({
        LET foundErrors == DOMAIN errors # {}
            merged(r) == mergeErrorsBackIn(r, errors, Len(cols[1]))
        IN  IF foundErrors
            THEN The({ The({
                     [args |-> dependenciesWithoutErrors,
                      result |->
                         CASE resultWithoutErrors.t = "column" ->
                                [resultWithoutErrors EXCEPT !.col = merged(@)]
                           [] resultWithoutErrors.t = "promise" /\ resultWithoutErrors.ok ->
                                [resultWithoutErrors EXCEPT !.col = merged(@)]
                           [] OTHER -> resultWithoutErrors]
                   : resultWithoutErrors \in
                         {Execute(s, steps[s].execute, dependenciesWithoutErrors)}})
                   : dependenciesWithoutErrors \in
                         {[i \in 1..Len(cols) |->
                             [defined |-> TRUE, col |-> WithoutErrors(cols[i], errors)]]}})
            ELSE reallyExecuteStepWithNoErrors(s, dependencies)
      : errors \in {ErrorsOf(cols)}})
      : cols \in {[i \in 1..Len(dependencies) |-> dependencies[i].col]}})

-----------------------------------------------------------------------------
(* executeStep, completedStep, reallyCompletedStep *)

RECURSIVE executeStep(_, _)
RECURSIVE completedStep(_, _, _, _)
RECURSIVE reallyCompletedStep(_, _)
RECURSIVE DispatchDependents(_, _, _, _)

\* rejectOnThrow(cb): a raise of the callback becomes a rejected promise.
rejectOnThrow(st) ==
    The({IF r.ret = "throw" THEN [r EXCEPT !.ret = "promise"] ELSE r : r \in {st}})

\* Mutant of IsSuitable: `some` for `every`.
IsSuitableSome(st, potentialNextStep) ==
    /\ potentialNextStep \in st.pendingSteps
    /\ \E i \in 1..Len(layerPlan.dependencies[potentialNextStep]) :
           layerPlan.dependencies[potentialNextStep][i] \in DOMAIN st.store

\* Mutant of IsSuitable: only the first dependency is looked up in the store.
IsSuitableFirst(st, potentialNextStep) ==
    /\ potentialNextStep \in st.pendingSteps
    /\ Len(layerPlan.dependencies[potentialNextStep]) > 0 =>
           layerPlan.dependencies[potentialNextStep][1] \in DOMAIN st.store

\* Mutant of IsSuitable: whether the dependent is still pending is not asked.
IsSuitableDone(st, potentialNextStep) ==
    \A i \in 1..Len(layerPlan.dependencies[potentialNextStep]) :
        layerPlan.dependencies[potentialNextStep][i] \in DOMAIN st.store

\* isSuitable of reallyCompletedStep: the dependent is pending and every dependency of it
\* has a column in the store.
IsSuitable(st, potentialNextStep) ==
    LET isPending == potentialNextStep \in st.pendingSteps
    IN  IF isPending
        THEN \A i \in 1..Len(layerPlan.dependencies[potentialNextStep]) :
                 layerPlan.dependencies[potentialNextStep][i] \in DOMAIN st.store
        ELSE FALSE

\* if (isPromiseLike(r)) promises.push(r), and the rest of the loop; r is the state after
\* the dispatch of dependentPlans[i].
PushAndGoOn(r, finishedStep, i, promises) ==
    The({
        DispatchDependents(c, finishedStep, i + 1,
            IF c.ret = "promise"
            THEN promises \cup {layerPlan.dependentPlans[finishedStep][i]}
            ELSE promises)
      : c \in {r}})

\* Mutant of DispatchDependents: a raise of step.execute is not caught and ends the loop.
DispatchDependentsUntilRaise(st, finishedStep, i, promises) ==
    The({
        IF \/ i > Len(layerPlan.dependentPlans[finishedStep])
           \/ /\ i > 1
              /\ b.dispatched[layerPlan.dependentPlans[finishedStep][i - 1]].ran
              /\ b.dispatched[layerPlan.dependentPlans[finishedStep][i - 1]].result.t = "throw"
        THEN [b EXCEPT !.chained[finishedStep] = ps,
                       !.ret = IF ps # {} THEN "promise" ELSE "void"]
        ELSE IF IsSuitable(b, layerPlan.dependentPlans[finishedStep][i])
             THEN PushAndGoOn(
                      rejectOnThrow(executeStep(b, layerPlan.dependentPlans[finishedStep][i])),
                      finishedStep, i, ps)
             ELSE DispatchDependents(b, finishedStep, i + 1, ps)
      : b \in {st}, ps \in {promises}})

\* The loop of reallyCompletedStep over finishedStep.dependentPlans, from position i on;
\* `promises` are the dependents whose dispatch returned a promise so far.
DispatchDependents(st, finishedStep, i, promises) ==
    The({
        IF i > Len(layerPlan.dependentPlans[finishedStep])
        THEN [b EXCEPT !.chained[finishedStep] = ps,
                       !.ret = IF ps # {} THEN "promise" ELSE "void"]
        ELSE IF IsSuitable(b, layerPlan.dependentPlans[finishedStep][i])
             THEN PushAndGoOn(
                      rejectOnThrow(executeStep(b, layerPlan.dependentPlans[finishedStep][i])),
                      finishedStep, i, ps)
             ELSE DispatchDependents(b, finishedStep, i + 1, ps)
      : b \in {st}, ps \in {promises}})

\* Mutant of Finished: inProgressSteps.delete(finishedStep) is missing.
FinishedStillInProgress(st, finishedStep) ==
    [st EXCEPT !.pendingSteps = @ \ {finishedStep},
               !.phase[finishedStep] = "done",
               !.ret = "void"]

\* The step leaves inProgressSteps and pendingSteps.
Finished(st, finishedStep) ==
    [st EXCEPT !.inProgressSteps = @ \ {finishedStep},
               !.pendingSteps = @ \ {finishedStep},
               !.phase[finishedStep] = "done",
               !.ret = "void"]

\* Mutant of reallyCompletedStep: the dependents of the finished step are not dispatched.
reallyCompletedStepAlone(st, finishedStep) == Finished(st, finishedStep)

\* reallyCompletedStep(finishedStep)
reallyCompletedStep(st, finishedStep) ==
    The({
        IF b.pendingSteps \ {finishedStep} = {}
        THEN Finished(b, finishedStep)
        ELSE DispatchDependents(Finished(b, finishedStep), finishedStep, 1, {})
      : b \in {st}})

\* store[finishedStep.id] = result, without the pass through Promise.allSettled; that it
\* happened, and bucket.hasErrors at that moment, are remembered.
StoredDirectly(st, finishedStep, result) ==
    The({
        [Publish(b, finishedStep, result) EXCEPT
            !.dispatched[finishedStep].storedDirectly = TRUE,
            !.dispatched[finishedStep].errorsWhenStored = b.hasErrors]
      : b \in {st}})

\* Mutant of completedStep: the length of the result is not checked.
completedStepUnchecked(st, finishedStep, result, noNewErrors) ==
    IF steps[finishedStep].isSyncAndSafe /\ noNewErrors
    THEN reallyCompletedStep(StoredDirectly(st, finishedStep, result), finishedStep)
    ELSE [st EXCEPT !.phase[finishedStep] = "settling",
                    !.settling[finishedStep] = result,
                    !.ret = "promise"]

\* Mutant of completedStep: every result goes through Promise.allSettled.
completedStepAlwaysSettles(st, finishedStep, result, noNewErrors) ==
    IF Len(result) # size
    THEN [st EXCEPT !.ret = "throw"]
    ELSE [st EXCEPT !.phase[finishedStep] = "settling",
                    !.settling[finishedStep] = result,
                    !.ret = "promise"]

\* completedStep(finishedStep, result, noNewErrors): validates the result, then either
\* publishes it at once or hands it to Promise.allSettled (phase "settling").
completedStep(st, finishedStep, result, noNewErrors) ==
    The({
        IF Len(values) # size
        THEN [st EXCEPT !.ret = "throw"]
        ELSE IF steps[finishedStep].isSyncAndSafe /\ noNewErrors
             THEN reallyCompletedStep(StoredDirectly(st, finishedStep, values), finishedStep)
             ELSE [st EXCEPT !.phase[finishedStep] = "settling",
                             !.settling[finishedStep] = values,
                             !.ret = "promise"]
      : values \in {result}})

\* A raise that nothing catches leaves the step in progress for good and rejects the
\* promise of its dispatch.
Escapes(c, step) ==
    The({IF r.ret = "throw" THEN [r EXCEPT !.phase[step] = "failed"] ELSE r : r \in {c}})

\* The catch block of executeStep.
CatchInExecuteStep(st, step, error) ==
    Escapes(completedStep([st EXCEPT !.hasErrors = TRUE], step,
                          arrayOfLength(size, newCrystalError(error, step)), TRUE),
            step)

\* The try block of executeStep around completedStep(step, result, true): c is the state
\* completedStep left, st the state before it.
TryCompleted(c, st, step) ==
    The({IF r.ret = "throw" THEN CatchInExecuteStep(st, step, Raised(step, -1)) ELSE r : r \in {c}})

\* Mutant of DependenciesOf: the columns are collected in the reverse of the declared order.
DependenciesOfReversed(st, step) ==
    LET deps == layerPlan.dependencies[step]
        n == Len(deps)
    IN  IF n > 0
        THEN [i \in 1..n |->
                 IF deps[n + 1 - i] \in DOMAIN st.store
                 THEN [defined |-> TRUE, col |-> st.store[deps[n + 1 - i]]]
                 ELSE [defined |-> FALSE, col |-> <<>>]]
        ELSE <<[defined |-> TRUE, col |-> noDepsList]>>

\* The dependencies executeStep collects: store[depId] for each dependency, in order, or
\* noDepsList.  A dependency without a column gives `undefined`.
DependenciesOf(st, step) ==
    LET deps == layerPlan.dependencies[step]
    IN  IF Len(deps) > 0
        THEN [i \in 1..Len(deps) |->
                 IF deps[i] \in DOMAIN st.store
                 THEN [defined |-> TRUE, col |-> st.store[deps[i]]]
                 ELSE [defined |-> FALSE, col |-> <<>>]]
        ELSE <<[defined |-> TRUE, col |-> noDepsList]>>

\* The step enters inProgressSteps; what it was given is remembered (storedDirectly and
\* errorsWhenStored are filled in by StoredDirectly, reduced, errorsBefore and
\* errorsWhenStored by StoredReduced, writes by Publish).
Entered(st, step, dependencies, run) ==
    [st EXCEPT !.inProgressSteps = @ \cup {step},
               !.calls[step] = IF run.args # <<>> THEN @ + 1 ELSE @,
               !.dispatched[step] =
                   [ran |-> TRUE, hadErrors |-> st.hasErrors,
                    dependencies |-> dependencies, args |-> run.args,
                    result |-> run.result,
                    storedDirectly |-> FALSE, errorsWhenStored |-> FALSE,
                    reduced |-> FALSE, errorsBefore |-> FALSE,
                    writes |-> IF st.dispatched[step].ran
                               THEN st.dispatched[step].writes ELSE 0]]

\* Mutant of Received: a column returned synchronously that holds an ErrorValue sets
\* bucket.hasErrors before it is completed.
ReceivedFlagging(st, step, result) ==
    CASE result.t = "promise" ->
           [st EXCEPT !.phase[step] = "awaiting", !.future[step] = result,
                      !.ret = "promise"]
      [] result.t = "column" ->
           TryCompleted(completedStep([st EXCEPT !.hasErrors = @ \/ HoldsError(result.col)],
                                      step, result.col, TRUE),
                        st, step)
      [] result.t = "throw" ->
           CatchInExecuteStep(st, step, result.error)

\* What executeStep does with the result of the invocation.
Received(st, step, result) ==
    The({
        CASE result.t = "promise" ->
               [b EXCEPT !.phase[step] = "awaiting", !.future[step] = result,
                         !.ret = "promise"]
          [] result.t = "column" ->
               TryCompleted(completedStep(b, step, result.col, TRUE), b, step)
          [] result.t = "throw" ->
               CatchInExecuteStep(b, step, result.error)
      : b \in {st}})

\* bucket.hasErrors ? reallyExecuteStepWithErrors(...) : reallyExecuteStepWithNoErrors(...)
Invoke(st, step, dependencies) ==
    IF st.hasErrors
    THEN reallyExecuteStepWithErrors(step, dependencies)
    ELSE reallyExecuteStepWithNoErrors(step, dependencies)

Ran(st, step, dependencies, run) ==
    The({Received(Entered(st, step, dependencies, r), step, r.result) : r \in {run}})

Collected(st, step, dependencies) ==
    The({Ran(st, step, d, Invoke(st, step, d)) : d \in {dependencies}})

\* Mutant of executeStep: a step in progress is not recognised.
executeStepUnguarded(st, step) == Collected(st, step, DependenciesOf(st, step))

\* executeStep(step)
executeStep(st, step) ==
    The({
        IF step \in b.inProgressSteps
        THEN [b EXCEPT !.ret = "void"]
        ELSE Collected(b, step, DependenciesOf(b, step))
      : b \in {st}})

-----------------------------------------------------------------------------
(* The promise returned for a step, and child hand-off *)

RECURSIVE ChainState(_)
\* The state of the promise executeStep returned for step s: it settles with the step's
\* completion and with Promise.all of the promises of the dependents that completion
\* dispatched; Promise.all rejects as soon as one of them rejects.
ChainState(s) ==
    CASE phase[s] = "failed" -> "rejected"
      [] phase[s] = "done" ->
           IF \E t \in chained[s] : ChainState(t) = "rejected" THEN "rejected"
           ELSE IF \A t \in chained[s] : ChainState(t) = "resolved" THEN "resolved"
           ELSE "pending"
      [] OTHER -> "pending"

\* The reasons of child layer plans that executeSamePhaseChildren skips.
HandledElsewhere == {"subroutine", "subscription", "defer", "stream"}

\* executeSamePhaseChildren(): "throw" when it raises, "void" when it returns.  It raises
\* when steps are still pending and at the first child whose reason it does not skip; the
\* assignment of bucket.isComplete stands after the function's last return.
executeSamePhaseChildren(pending) ==
    IF pending # {} THEN "throw"
    ELSE IF \E i \in 1..Len(layerPlan.children) : layerPlan.children[i] \notin HandledElsewhere
         THEN "throw"
         ELSE "void"

-----------------------------------------------------------------------------
(* Actions *)

\* The state after a turn that computed `st`.
Commit(st) ==
    /\ store' = st.store
    /\ hasErrors' = st.hasErrors
    /\ inProgressSteps' = st.inProgressSteps
    /\ pendingSteps' = st.pendingSteps
    /\ phase' = st.phase
    /\ future' = st.future
    /\ settling' = st.settling
    /\ chained' = st.chained
    /\ calls' = st.calls
    /\ dispatched' = st.dispatched
    /\ UNCHANGED <<layerPlan, steps, size, isComplete>>

RECURSIVE DispatchStarters(_, _, _)
\* if (isPromiseLike(r)) starterPromises.push(r), and the rest of the loop.
PushStarter(r, i, promises) ==
    The({
        DispatchStarters(c, i + 1,
            IF c.ret = "promise" THEN promises \cup {layerPlan.startSteps[i]} ELSE promises)
      : c \in {r}})

\* The loop of executeBucket over startSteps, from position i on.
DispatchStarters(st, i, promises) ==
    The({
        IF i > Len(layerPlan.startSteps)
        THEN [st |-> st, promises |-> ps]
        ELSE PushStarter(rejectOnThrow(executeStep(st, layerPlan.startSteps[i])), i, ps)
      : ps \in {promises}})

\* executeBucket(bucket, requestContext): dispatches the start steps; with no promise to
\* wait for it goes on to executeSamePhaseChildren in the same turn.
ExecuteBucket ==
    /\ outcome = "none"
    /\ \E d \in {DispatchStarters(Current, 1, {})} :
           /\ Commit(d.st)
           /\ starterPromises' = d.promises
           /\ IF d.promises # {}
              THEN outcome' = "pending" /\ UNCHANGED handOffs
              ELSE /\ handOffs' = handOffs + 1
                   /\ outcome' = IF executeSamePhaseChildren(d.st.pendingSteps) = "throw"
                                 THEN "threw" ELSE "returned"

\* (values) => completedStep(step, values), run on the state st.  A raise of completedStep
\* rejects the promise executeStep returned.
ThenFulfilled(st, s) ==
    Escapes(completedStep(st, s, st.future[s].col, FALSE), s)

\* The onFulfilled handler of executeStep: the step's future fulfilled with its column.
OnStepFulfilled(s) ==
    /\ phase[s] = "awaiting"
    /\ future[s].ok
    /\ \E c \in {ThenFulfilled(Current, s)} : Commit(c)
    /\ UNCHANGED <<starterPromises, outcome, handOffs>>

\* Mutant of OnStepRejected: the rejection of the step's future is not handled.
OnStepRejectedUnhandled(s) ==
    /\ phase[s] = "awaiting"
    /\ ~future[s].ok
    /\ phase' = [phase EXCEPT ![s] = "failed"]
    /\ UNCHANGED <<layerPlan, steps, size, store, hasErrors, isComplete, inProgressSteps,
                   pendingSteps, future, settling, chained, starterPromises, outcome,
                   handOffs, calls, dispatched>>

\* Mutant of ThenRejected: bucket.hasErrors is not set.
ThenRejectedUnflagged(st, s) ==
    Escapes(completedStep(st, s,
                          arrayOfLength(size, newCrystalError(st.future[s].error, s)), FALSE),
            s)

\* (error) => { bucket.hasErrors = true; return completedStep(step, arrayOfLength(...)) },
\* run on the state st.
ThenRejected(st, s) ==
    Escapes(completedStep([st EXCEPT !.hasErrors = TRUE], s,
                          arrayOfLength(size, newCrystalError(st.future[s].error, s)), FALSE),
            s)

\* The onRejected handler of executeStep: the step's future rejected.
OnStepRejected(s) ==
    /\ phase[s] = "awaiting"
    /\ ~future[s].ok
    /\ \E c \in {ThenRejected(Current, s)} : Commit(c)
    /\ UNCHANGED <<starterPromises, outcome, handOffs>>

\* rs.map(...) in the handler of Promise.allSettled
Settled(s, column) ==
    [i \in 1..Len(column) |->
        IF isPromiseLike(column[i])
        THEN IF column[i].settles = "fulfilled"
             THEN column[i].payload
             ELSE newCrystalError(column[i].payload, s)
        ELSE column[i]]

\* Whether the handler of Promise.allSettled sets bucket.hasErrors.
SeesRejection(column) ==
    \E i \in 1..Len(column) : isPromiseLike(column[i]) /\ column[i].settles = "rejected"

\* Mutant of HasErrorsAfter: the flag is assigned whether an entry rejected.
HasErrorsAssigned(before, column) == SeesRejection(column)

\* bucket.hasErrors after the handler of Promise.allSettled has mapped the entries of
\* `column`: set to true at each rejected entry, left alone otherwise.
HasErrorsAfter(before, column) == before \/ SeesRejection(column)

\* store[finishedStep.id] = the mapped entries, in the handler of Promise.allSettled; that
\* it happened, bucket.hasErrors when the handler began (`before`) and bucket.hasErrors at
\* the moment of the assignment are remembered.
StoredReduced(st, finishedStep, column, before) ==
    The({
        [Publish(b, finishedStep, column) EXCEPT
            !.dispatched[finishedStep].reduced = TRUE,
            !.dispatched[finishedStep].errorsBefore = before,
            !.dispatched[finishedStep].errorsWhenStored = b.hasErrors]
      : b \in {st}})

\* (rs) => { ...; store[finishedStep.id] = result; return reallyCompletedStep(finishedStep) },
\* run on the state st.
ThenAllSettled(st, s) ==
    The({
        reallyCompletedStep(
            StoredReduced([b EXCEPT !.hasErrors = HasErrorsAfter(@, b.settling[s])], s,
                          Settled(s, b.settling[s]), b.hasErrors),
            s)
      : b \in {st}})

\* The handler of Promise.allSettled(result) in completedStep: every entry has settled.
OnAllSettled(s) ==
    /\ phase[s] = "settling"
    /\ \E c \in {ThenAllSettled(Current, s)} : Commit(c)
    /\ UNCHANGED <<starterPromises, outcome, handOffs>>

\* Mutant of OnStartersFulfilled: the handler runs when the first starter promise has
\* fulfilled (Promise.race for Promise.all).
OnStartersFulfilledFirst ==
    /\ outcome = "pending"
    /\ \E s \in starterPromises : ChainState(s) = "resolved"
    /\ handOffs' = handOffs + 1
    /\ outcome' = IF executeSamePhaseChildren(pendingSteps) = "throw"
                  THEN "rejected" ELSE "resolved"
    /\ UNCHANGED <<layerPlan, steps, size, store, hasErrors, isComplete, inProgressSteps,
                   pendingSteps, phase, future, settling, chained, starterPromises,
                   calls, dispatched>>

\* Promise.all(starterPromises) fulfilled: executeSamePhaseChildren runs as its handler.
OnStartersFulfilled ==
    /\ outcome = "pending"
    /\ \A s \in starterPromises : ChainState(s) = "resolved"
    /\ handOffs' = handOffs + 1
    /\ outcome' = IF executeSamePhaseChildren(pendingSteps) = "throw"
                  THEN "rejected" ELSE "resolved"
    /\ UNCHANGED <<layerPlan, steps, size, store, hasErrors, isComplete, inProgressSteps,
                   pendingSteps, phase, future, settling, chained, starterPromises,
                   calls, dispatched>>

\* Promise.all(starterPromises) rejected: so does the promise executeBucket returned.
OnStartersRejected ==
    /\ outcome = "pending"
    /\ \E s \in starterPromises : ChainState(s) = "rejected"
    /\ outcome' = "rejected"
    /\ UNCHANGED <<layerPlan, steps, size, store, hasErrors, isComplete, inProgressSteps,
                   pendingSteps, phase, future, settling, chained, starterPromises,
                   handOffs, calls, dispatched>>

-----------------------------------------------------------------------------
(* The layer plans and buckets explored *)

\* A -> {B, C} -> D(B, C)
PlanDiamond ==
    [name |-> "diamond", steps |-> {"A", "B", "C", "D"}, root |-> FALSE,
     dependencies |-> [A |-> <<>>, B |-> <<"A">>, C |-> <<"A">>, D |-> <<"B", "C">>],
     dependentPlans |-> [A |-> <<"B", "C">>, B |-> <<"D">>, C |-> <<"D">>, D |-> <<>>],
     startSteps |-> <<"A">>,
     children |-> <<>>]

\* A -> B(A), D(A, B): D is a dependent of A and of A's dependent B.
PlanTriangle ==
    [name |-> "triangle", steps |-> {"A", "B", "D"}, root |-> FALSE,
     dependencies |-> [A |-> <<>>, B |-> <<"A">>, D |-> <<"A", "B">>],
     dependentPlans |-> [A |-> <<"B", "D">>, B |-> <<"D">>, D |-> <<>>],
     startSteps |-> <<"A">>,
     children |-> <<"subroutine", "subscription", "defer", "stream">>]

\* A -> B(A)
PlanChain ==
    [name |-> "chain", steps |-> {"A", "B"}, root |-> FALSE,
     dependencies |-> [A |-> <<>>, B |-> <<"A">>],
     dependentPlans |-> [A |-> <<"B">>, B |-> <<>>],
     startSteps |-> <<"A">>,
     children |-> <<"defer">>]

\* A and B(R) start, C(A, B) joins them; R is the column received from the parent.
PlanJoin ==
    [name |-> "join", steps |-> {"A", "B", "C"}, root |-> TRUE,
     dependencies |-> [A |-> <<>>, B |-> <<RootId>>, C |-> <<"A", "B">>],
     dependentPlans |-> [A |-> <<"C">>, B |-> <<"C">>, C |-> <<>>],
     startSteps |-> <<"A", "B">>,
     children |-> <<>>]

\* A alone, with a child layer plan the executor does not hand off to.
PlanSingle ==
    [name |-> "single", steps |-> {"A"}, root |-> FALSE,
     dependencies |-> [A |-> <<>>],
     dependentPlans |-> [A |-> <<>>],
     startSteps |-> <<"A">>,
     children |-> <<"stream", "listItem">>]

\* A -> B(A) beside X: A and X start, and B is dispatched when A completes, before or
\* after X does.
PlanFork ==
    [name |-> "fork", steps |-> {"A", "B", "X"}, root |-> FALSE,
     dependencies |-> [A |-> <<>>, B |-> <<"A">>, X |-> <<>>],
     dependentPlans |-> [A |-> <<"B">>, B |-> <<>>, X |-> <<>>],
     startSteps |-> <<"A", "X">>,
     children |-> <<>>]

Plans == {PlanDiamond, PlanTriangle, PlanChain, PlanJoin, PlanSingle, PlanFork}

\* A step: its isSyncAndSafe flag and the behaviour of its execute.
StepsWith(flags, behaviours) == [isSyncAndSafe : flags, execute : behaviours]

\* Steps that differ in how they return, not in what: they return well-shaped columns of
\* plain values, or fail as a whole.
Coarse ==
    StepsWith(BOOLEAN, Columns({"sync"}, {"ok"}, {}, {}) \cup [mode : {"throw"}, shape : {"ok"}, entry : {"plain"}, row : {0}])
      \cup StepsWith({FALSE}, Columns({"async"}, {"ok"}, {}, {}) \cup [mode : {"reject"}, shape : {"ok"}, entry : {"plain"}, row : {0}])

\* Steps that also differ in the entries they return, at row 1..n.
Rich(shapes, n) ==
    StepsWith(BOOLEAN,
              Columns({"sync", "async"}, shapes, {"err", "pFul", "pRej"}, 1..n) \cup Faults)

\* The steps explored for a plan in a bucket of n rows.
StepChoices(plan, n) ==
    CASE plan.name = "diamond"  -> [plan.steps -> Coarse]
      [] plan.name = "triangle" -> [plan.steps -> Coarse]
      [] plan.name = "single"   -> [plan.steps -> Coarse \cup StepsWith({FALSE}, Columns({"async"}, {"short"}, {}, {}))]
      [] plan.name = "chain"    ->
           {("A" :> a) @@ ("B" :> b) :
               a \in Rich({"ok"}, n), b \in Rich({"ok", "short", "long"}, n)}
      [] plan.name = "join"     ->
           {("A" :> a) @@ ("B" :> b) @@ ("C" :> c) :
               a \in StepsWith({FALSE}, Columns({"sync"}, {"ok"}, {"err", "pRej"}, 1..n))
                        \cup StepsWith(BOOLEAN, [mode : {"throw"}, shape : {"ok"},
                                                 entry : {"plain"}, row : {0}]),
               b \in StepsWith(BOOLEAN, Columns({"sync", "async"}, {"ok"}, {}, {})),
               c \in StepsWith(BOOLEAN, Columns({"sync", "async"}, {"ok"}, {}, {}))}
      [] plan.name = "fork"     ->
           {("A" :> a) @@ ("B" :> b) @@ ("X" :> x) :
               a \in StepsWith({FALSE}, Columns({"async"}, {"ok"}, {"err", "pRej"}, 1..n)
                                          \cup [mode : {"reject"}, shape : {"ok"},
                                                entry : {"plain"}, row : {0}]),
               b \in StepsWith(BOOLEAN, Columns({"sync", "async"}, {"ok"}, {}, {})),
               x \in StepsWith({FALSE}, Columns({"sync", "async"}, {"ok"}, {"pRej"}, 1..n)
                                          \cup [mode : {"reject"}, shape : {"ok"},
                                                entry : {"plain"}, row : {0}])}

\* The column of the parent's step: values, with an ErrorValue at row e if e > 0.
RootColumn(n, e) ==
    [i \in 1..n |-> IF i = e THEN CrystalError(Raised(RootId, i)) ELSE Val(RootId, i)]

\* The stores a bucket of n rows starts with.
InitialStores(plan, n) ==
    IF plan.root
    THEN {(RootId :> RootColumn(n, e)) : e \in 0..n}
    ELSE {[d \in {} |-> <<>>]}

NoFuture == [t |-> "none"]

NotDispatched == [ran |-> FALSE]

\* The bucket as its creator hands it over (hasErrors is set when a column it was given
\* holds an error), and the closure of executeBucket before its first statement.
Init ==
    /\ layerPlan \in Plans
    /\ size \in 0..MaxSize
    /\ steps \in StepChoices(layerPlan, size)
    /\ store \in InitialStores(layerPlan, size)
    /\ hasErrors \in BOOLEAN
    /\ (\E d \in DOMAIN store : HoldsError(store[d])) => hasErrors
    /\ isComplete = FALSE
    /\ inProgressSteps = {}
    /\ pendingSteps = layerPlan.steps
    /\ phase = [s \in layerPlan.steps |-> "idle"]
    /\ future = [s \in layerPlan.steps |-> NoFuture]
    /\ settling = [s \in layerPlan.steps |-> <<>>]
    /\ chained = [s \in layerPlan.steps |-> {}]
    /\ starterPromises = {}
    /\ outcome = "none"
    /\ handOffs = 0
    /\ calls = [s \in layerPlan.steps |-> 0]
    /\ dispatched = [s \in layerPlan.steps |-> NotDispatched]

Next ==
    \/ ExecuteBucket
    \/ \E s \in layerPlan.steps : OnStepFulfilled(s)
    \/ \E s \in layerPlan.steps : OnStepRejected(s)
    \/ \E s \in layerPlan.steps : OnAllSettled(s)
    \/ OnStartersFulfilled
    \/ OnStartersRejected

Spec == Init /\ [][Next]_vars

\* The caller calls executeBucket, and the event loop runs a handler whose promise has
\* settled: as long as some turn can be taken, one is.
FairSpec == Spec /\ WF_vars(Next)

-----------------------------------------------------------------------------
(* Properties *)

\* The ids whose column the store holds.
Published == DOMAIN store

\* Every dependency of step s has a column in the store.
DependenciesPublished(s) ==
    \A i \in 1..Len(layerPlan.dependencies[s]) : layerPlan.dependencies[s][i] \in Published

\* C1: whenever a step was dispatched, each of its dependencies had a published column at
\* that moment: executeStep never read a dependency that had no column yet.
C1_DependenciesPublishedAtDispatch ==
    \A s \in layerPlan.steps :
        dispatched[s].ran =>
            \A i \in 1..Len(dispatched[s].dependencies) : dispatched[s].dependencies[i].defined

\* The join D of the diamond was dispatched after B and C completed in separate turns.
C1_Witness ==
    /\ layerPlan.name = "diamond"
    /\ steps["B"].execute.mode = "async"
    /\ steps["C"].execute.mode = "async"
    /\ dispatched["D"].ran
    /\ Len(dispatched["D"].dependencies) = 2

\* C2: execute of a step is invoked at most once, and exactly once as soon as the bucket
\* is being executed and all the step's dependencies have a published column.
C2_InvokedExactlyOnce ==
    \A s \in layerPlan.steps :
        /\ calls[s] <= 1
        /\ (outcome # "none" /\ DependenciesPublished(s)) => calls[s] = 1
        /\ calls[s] = 1 => DependenciesPublished(s)

\* The join D of the diamond was invoked once, with B published before C or C before B,
\* and D, a dependent of both A and B in the triangle, was invoked once.
C2_Witness ==
    \/ /\ layerPlan.name = "diamond"
       /\ calls["D"] = 1
       /\ phase["B"] = "done" /\ phase["C"] = "done" /\ phase["D"] = "done"
       /\ steps["B"].execute.mode = "async"
    \/ /\ layerPlan.name = "triangle"
       /\ calls["D"] = 1
       /\ steps["B"].isSyncAndSafe /\ steps["B"].execute.mode = "sync"
       /\ phase["D"] = "awaiting"

\* C3: when executeBucket has returned or its promise has fulfilled, no step is pending or
\* in progress and every step of the layer plan has a published column.
C3_CompleteOnReturn ==
    outcome \in {"returned", "resolved"} =>
        /\ pendingSteps = {}
        /\ inProgressSteps = {}
        /\ layerPlan.steps \subseteq Published

\* executeBucket's promise fulfilled for the diamond with an asynchronous step in it.
C3_Witness ==
    /\ outcome = "resolved"
    /\ layerPlan.name = "diamond"
    /\ steps["C"].execute.mode = "async"

\* C4: every column of the store has exactly bucket.size entries.
C4_ColumnsHaveBucketSize ==
    \A d \in Published : Len(store[d]) = size

\* A step that was run on filtered columns and returned a column of the wrong length has
\* been published.
C4_Witness ==
    /\ layerPlan.name = "chain"
    /\ "B" \in Published
    /\ dispatched["B"].hadErrors
    /\ steps["B"].execute.shape = "short"
    /\ steps["B"].execute.mode = "sync"
    /\ size = MaxSize
    /\ Len(dispatched["B"].args[1].col) = size - 1

\* A step whose execute raised or returned a future that rejects has been run.
FailedWhole(s) ==
    /\ dispatched[s].ran
    /\ dispatched[s].result.t \in {"throw", "promise"}
    /\ dispatched[s].result.t = "promise" => ~dispatched[s].result.ok

\* A step whose execute returned a column, directly or through a future that fulfils, has
\* been run.
ReturnedColumn(s) ==
    /\ dispatched[s].ran
    /\ dispatched[s].result.t \in {"column", "promise"}
    /\ dispatched[s].result.t = "promise" => dispatched[s].result.ok

\* The promise of a step's dispatch rejected: its future fulfilled with a result whose
\* length completedStep refuses.
ShapeViolationEscaped(s) ==
    /\ ReturnedColumn(s)
    /\ dispatched[s].result.t = "promise"
    /\ Len(dispatched[s].result.col) # size
    /\ phase[s] = "failed"

UnhandledChild ==
    \E i \in 1..Len(layerPlan.children) : layerPlan.children[i] \notin HandledElsewhere

\* C5 as stated: executeBucket never throws and its promise never rejects.
C5_NeverThrowsNorRejects == outcome \notin {"threw", "rejected"}

\* C5 as amended: executeBucket throws or its promise rejects only when a child layer plan
\* has a reason the executor does not skip, or when the future a step returned fulfilled
\* with a result of the wrong length; every other fault stays in the columns.
C5_OnlyViolationsEscape ==
    outcome \in {"threw", "rejected"} =>
        \/ UnhandledChild
        \/ \E s \in layerPlan.steps : ShapeViolationEscaped(s)

\* executeBucket's promise fulfilled although one step raised, another returned a future
\* that rejected and another returned, synchronously, a column of the wrong length.
C5_Witness ==
    /\ outcome = "resolved"
    /\ \/ /\ \E s \in layerPlan.steps : steps[s].execute.mode = "throw"
          /\ \E s \in layerPlan.steps : steps[s].execute.mode = "reject"
       \/ /\ \E s \in layerPlan.steps :
                 /\ dispatched[s].ran /\ ~dispatched[s].hadErrors
                 /\ dispatched[s].result.t = "column"
                 /\ Len(dispatched[s].result.col) # size
          /\ \E s \in layerPlan.steps : steps[s].execute.mode = "reject"

\* C6 as stated: once a step that raised, or whose future rejected, is published, its
\* column is bucket.size times one ErrorValue that carries the error raised and the id of
\* the step, hasErrors is true, the step is no longer pending, its ready dependents have
\* been dispatched and executeBucket has neither thrown nor rejected on its account.
C6_WholeBatchFailure ==
    \A s \in layerPlan.steps :
        (FailedWhole(s) /\ s \in Published) =>
            /\ Len(store[s]) = size
            /\ \A i \in 1..size :
                  /\ isCrystalError(store[s][i])
                  /\ store[s][i] = store[s][1]
                  /\ store[s][i].originalError = dispatched[s].result.error
                  /\ OriginatingStepId(store[s][i]) = s
            /\ hasErrors
            /\ s \notin pendingSteps
            /\ \A i \in 1..Len(layerPlan.dependentPlans[s]) :
                  DependenciesPublished(layerPlan.dependentPlans[s][i]) =>
                      dispatched[layerPlan.dependentPlans[s][i]].ran
            /\ phase[s] # "failed"

\* The rows at which a dependency column of s held an error when s was dispatched.
ErroredRows(s) ==
    {i \in 1..size : \E j \in 1..Len(dispatched[s].dependencies) :
        /\ i <= Len(dispatched[s].dependencies[j].col)
        /\ isCrystalError(dispatched[s].dependencies[j].col[i])}

\* The error at row i of the first dependency column of s, in declared order, that held
\* an error there.
FirstErrorAt(s, i) ==
    LET D == dispatched[s].dependencies
        j == CHOOSE j \in 1..Len(D) :
                 /\ isCrystalError(D[j].col[i])
                 /\ \A k \in 1..(j - 1) : ~isCrystalError(D[k].col[i])
    IN  D[j].col[i]

\* The step went through reallyExecuteStepWithErrors.
ErrorAware(s) == dispatched[s].ran /\ dispatched[s].hadErrors

\* C7 as stated: the published column of a step that went through the error-aware invoker
\* holds, at every row where a dependency column held an error, the error of the first
\* such column.
C7_FirstErrorKept ==
    \A s \in layerPlan.steps :
        (ErrorAware(s) /\ s \in Published) =>
            \A i \in ErroredRows(s) : store[s][i] = FirstErrorAt(s, i)

\* C7 as amended: the same, for a step whose execute returned a column, directly or
\* through a future that fulfilled.
C7_FirstErrorKeptWhenReturned ==
    \A s \in layerPlan.steps :
        (ErrorAware(s) /\ ReturnedColumn(s) /\ s \in Published) =>
            \A i \in ErroredRows(s) : store[s][i] = FirstErrorAt(s, i)

\* C joins A and B, whose columns hold different errors at the same row; C's column has
\* A's there.
C7_Witness ==
    /\ layerPlan.name = "join"
    /\ "C" \in Published
    /\ ErrorAware("C") /\ ReturnedColumn("C")
    /\ \E i \in 1..size :
          /\ isCrystalError(store["A"][i])
          /\ isCrystalError(store["B"][i])
          /\ store["A"][i] # store["B"][i]
          /\ store["C"][i] = store["A"][i]

\* The position, in the filtered columns, of row i of the bucket.
KeptPosition(s, i) == Cardinality({j \in 1..(i - 1) : j \notin ErroredRows(s)}) + 1

C9_ErrorsRaiseHasErrors ==
    /\ \A s \in layerPlan.steps :
          (~steps[s].isSyncAndSafe /\ s \in Published /\ HoldsError(store[s])) => hasErrors
    /\ \A s \in layerPlan.steps :
          (dispatched[s].ran /\ \A d \in 1..Len(layerPlan.dependencies[s]) :
                                   layerPlan.dependencies[s][d] \in layerPlan.steps
                                   /\ ~steps[layerPlan.dependencies[s][d]].isSyncAndSafe) =>
              \A j \in 1..Len(dispatched[s].args) : ~HoldsError(dispatched[s].args[j].col)

\* C10: no step of the executor takes bucket.hasErrors from true to false.
C10_HasErrorsMonotonic == [][hasErrors => hasErrors']_vars

\* A step was dispatched when hasErrors was true, the handler of Promise.allSettled ran
\* for a column of it in which no entry rejected, and hasErrors is true.
C10_Witness ==
    /\ hasErrors
    /\ \E s \in layerPlan.steps :
          /\ ErrorAware(s)
          /\ phase[s] = "done"
          /\ ~steps[s].isSyncAndSafe
          /\ ~SeesRejection(dispatched[s].result.col)

\* C11 as stated: when executeBucket has returned, or its promise has fulfilled, with no
\* child layer plan or only children of reasons the executor skips, bucket.isComplete is
\* true.
C11_CompleteWhenReturned ==
    outcome \in {"returned", "resolved"} => isComplete

\* A step's execute returned, directly or through a future, a result whose length is not
\* bucket.size (seen by completedStep as returned).
WrongLength(s) ==
    /\ ReturnedColumn(s)
    /\ Len(dispatched[s].result.col) # size

\* C12 as stated: a step whose result has a length other than bucket.size gets no column,
\* and executeBucket neither returns nor fulfils its promise.
C12_ShapeViolationFatal ==
    \A s \in layerPlan.steps :
        WrongLength(s) =>
            /\ s \notin Published
            /\ outcome \notin {"returned", "resolved"}

\* C13 as stated: a step that goes through the error-aware invoker in a bucket where every
\* row has an error in some dependency column is not invoked, and its published column
\* holds at each row the error kept for that row.
C13_NotInvokedWhenAllErrored ==
    \A s \in layerPlan.steps :
        (ErrorAware(s) /\ size > 0 /\ ErroredRows(s) = 1..size) =>
            /\ calls[s] = 0
            /\ s \in Published => \A i \in 1..size : store[s][i] = FirstErrorAt(s, i)

\* The columns the store holds for the dependencies of s, in declared order, or noDepsList
\* alone for a step without dependencies.
StoreColumns(s) ==
    LET deps == layerPlan.dependencies[s]
    IN  IF Len(deps) > 0
        THEN [i \in 1..Len(deps) |-> [defined |-> TRUE, col |-> store[deps[i]]]]
        ELSE <<[defined |-> TRUE, col |-> noDepsList]>>

\* C14 as stated: the columns passed to a step's execute are the published columns of its
\* dependencies, in declared order, or noDepsList alone.
C14_ArgsAreStoreColumns ==
    \A s \in layerPlan.steps :
        calls[s] = 1 => dispatched[s].args = StoreColumns(s)

\* C14 as amended: the columns executeStep collects for a step are the published columns
\* of its dependencies, in declared order, or noDepsList alone, whether hasErrors is
\* true or not; execute receives them as they are, except that the error-aware invoker
\* first removes the rows at which one of them holds an error.
C14_DependenciesInDeclaredOrder ==
    \A s \in layerPlan.steps :
        calls[s] = 1 =>
            LET D == dispatched[s].dependencies
                F == dispatched[s].args
                kept == (1..size) \ ErroredRows(s)
            IN  /\ D = StoreColumns(s)
                /\ (~ErrorAware(s) \/ ErroredRows(s) = {}) => F = D
                /\ (ErrorAware(s) /\ ErroredRows(s) # {}) =>
                      /\ Len(F) = Len(D)
                      /\ \A j \in 1..Len(D) :
                            /\ Len(F[j].col) = Cardinality(kept)
                            /\ \A i \in kept : F[j].col[KeptPosition(s, i)] = D[j].col[i]

\* In the diamond C completed before B; D received B's column first and C's second.  A,
\* without dependencies, received noDepsList alone although hasErrors was true.
C14_Witness ==
    /\ layerPlan.name = "diamond"
    /\ size = MaxSize
    /\ steps["B"].execute.mode = "async"
    /\ steps["C"].execute.mode = "sync"
    /\ calls["D"] = 1
    /\ dispatched["D"].args = <<[defined |-> TRUE, col |-> store["B"]],
                                [defined |-> TRUE, col |-> store["C"]]>>
    /\ store["B"] # store["C"]
    /\ dispatched["A"].hadErrors
    /\ dispatched["A"].args = <<[defined |-> TRUE, col |-> noDepsList]>>

\* The column of s was stored by the fast path of completedStep.
FastPath(s) == dispatched[s].ran /\ dispatched[s].storedDirectly

\* C15 as stated: for a step marked isSyncAndSafe whose column was stored by the fast path,
\* hasErrors was the same when the column was stored as when the step was dispatched,
\* whatever its execute did.
C15_FastPathKeepsHasErrors ==
    \A s \in layerPlan.steps :
        (steps[s].isSyncAndSafe /\ FastPath(s)) =>
            dispatched[s].errorsWhenStored = dispatched[s].hadErrors

\* C15 as amended: the same, for a step whose execute returned a column of bucket.size
\* entries, which is then the column stored.
C15_FastPathKeepsHasErrorsWhenReturned ==
    \A s \in layerPlan.steps :
        (steps[s].isSyncAndSafe /\ FastPath(s) /\ ReturnedColumn(s) /\ ~WrongLength(s)) =>
            /\ dispatched[s].errorsWhenStored = dispatched[s].hadErrors
            /\ store[s] = dispatched[s].result.col

\* A step marked isSyncAndSafe returned a column holding an ErrorValue while hasErrors was
\* false; the column was stored by the fast path and hasErrors was still false then.
C15_Witness ==
    \E s \in layerPlan.steps :
        /\ steps[s].isSyncAndSafe /\ FastPath(s) /\ ReturnedColumn(s)
        /\ ~dispatched[s].hadErrors /\ ~dispatched[s].errorsWhenStored
        /\ size > 0
        /\ HoldsError(store[s])

\* Every step has been invoked and has its column, nothing is pending or in progress, and
\* child hand-off has been entered.
Completed ==
    /\ pendingSteps = {}
    /\ inProgressSteps = {}
    /\ \A s \in layerPlan.steps : calls[s] = 1 /\ phase[s] = "done" /\ s \in Published
    /\ handOffs = 1

\* C16 as stated: when every future settles, executeBucket eventually completes.  (The
\* futures of the model all settle: their handlers are enabled until they run.)
C16_EventuallyCompletes == <>Completed

\* C16 as amended: executeBucket eventually completes, unless the future of some step
\* fulfilled with a result whose length is not bucket.size.
C16_CompletesUnlessShapeViolation ==
    <>(Completed \/ \E s \in layerPlan.steps : ShapeViolationEscaped(s))

\* The diamond completed with B and C both returning futures, of columns whose entries
\* were futures too.
C16_Witness ==
    /\ Completed
    /\ layerPlan.name = "diamond"
    /\ size = MaxSize
    /\ steps["B"].execute.mode = "async"
    /\ steps["C"].execute.mode = "async"
    /\ outcome = "resolved"

\* Every step returns, synchronously, a column with as many entries as its input.
AllReturnSynchronously ==
    \A s \in layerPlan.steps :
        steps[s].execute.mode = "sync" /\ steps[s].execute.shape = "ok"

\* bucket.hasErrors when executeBucket was called: what the first start step saw.
HadErrorsOnEntry == dispatched[layerPlan.startSteps[1]].hadErrors

\* C17 as stated: in a bucket of size 0 whose steps return synchronously, once executeBucket
\* has been called every step has the empty column, hasErrors has stayed false, no column
\* was handed to a future (sync-and-safe or not) and executeBucket did not suspend.
C17_EmptyBucketNoFutures ==
    (size = 0 /\ outcome # "none" /\ AllReturnSynchronously) =>
        /\ \A s \in layerPlan.steps :
              /\ phase[s] # "settling"
              /\ s \in Published /\ store[s] = <<>>
        /\ ~HadErrorsOnEntry => ~hasErrors
        /\ outcome \notin {"pending", "resolved", "rejected"}

\* A step marked isSyncAndSafe was dispatched while hasErrors was false and its execute
\* returned a column synchronously.
SyncSafeReturned(s) ==
    /\ steps[s].isSyncAndSafe
    /\ dispatched[s].ran /\ ~dispatched[s].hadErrors
    /\ dispatched[s].result.t = "column"

\* Every step is marked isSyncAndSafe and returns its column synchronously.
AllSyncSafe ==
    \A s \in layerPlan.steps : steps[s].isSyncAndSafe /\ steps[s].execute.mode = "sync"

\* C18 as stated: a step marked isSyncAndSafe that returned its column synchronously while
\* hasErrors was false has its column in the store, put there directly, by the end of the
\* turn that dispatched it; and when every step is such a step, executeBucket has
\* returned in the turn of the call, with every column published.
C18_SyncSafeReturnsAtOnce ==
    /\ \A s \in layerPlan.steps :
          SyncSafeReturned(s) => s \in Published /\ phase[s] = "done" /\ FastPath(s)
    /\ (outcome # "none" /\ AllSyncSafe /\ ~HadErrorsOnEntry) =>
          /\ outcome = "returned"
          /\ layerPlan.steps \subseteq Published

\* C18 as amended: the same, except that executeBucket, instead of returning, throws in
\* the turn of the call when a child layer plan has a reason it does not skip; in no case
\* does it give its caller a future.
C18_SyncSafePublishedInSameTurn ==
    /\ \A s \in layerPlan.steps :
          SyncSafeReturned(s) => s \in Published /\ phase[s] = "done" /\ FastPath(s)
    /\ (outcome # "none" /\ AllSyncSafe /\ ~HadErrorsOnEntry) =>
          /\ outcome \in {"returned", "threw"}
          /\ ~UnhandledChild => outcome = "returned"
          /\ layerPlan.steps \subseteq Published
          /\ \A s \in layerPlan.steps : FastPath(s)

\* The four steps of the diamond, all isSyncAndSafe, were published in the turn of the
\* call and executeBucket returned.
C18_Witness ==
    /\ layerPlan.name = "diamond"
    /\ size = MaxSize
    /\ AllSyncSafe
    /\ outcome = "returned"
    /\ ~HadErrorsOnEntry /\ ~hasErrors
    /\ \A s \in layerPlan.steps : SyncSafeReturned(s) /\ Len(store[s]) = size

\* Nothing is pending or in progress, every future the steps gave rise to has settled and
\* been handled, and every step has its column.
Quiescent ==
    /\ pendingSteps = {}
    /\ inProgressSteps = {}
    /\ \A s \in layerPlan.steps : phase[s] = "done" /\ s \in Published

\* C19 as stated: executeSamePhaseChildren is entered only when nothing is pending or in
\* progress, every future has settled and every step has its column, and exactly once in
\* a run of executeBucket: never twice, and once when the run is over.
C19_HandOffExactlyOnce ==
    /\ handOffs <= 1
    /\ handOffs = 1 => Quiescent
    /\ outcome \in {"returned", "resolved", "threw", "rejected"} => handOffs = 1

\* C19 as amended: executeSamePhaseChildren is entered at most once, not before the start
\* steps were dispatched and only when nothing is pending or in progress, every future has
\* settled and every step has its column; it has been entered once when executeBucket
\* has returned, thrown or fulfilled its promise, and a promise that rejected without it
\* rejected for a step result of the wrong length.
C19_HandOffOnceWhenQuiescent ==
    /\ handOffs <= 1
    /\ handOffs = 1 => Quiescent
    /\ outcome \in {"none", "pending"} => handOffs = 0
    /\ outcome \in {"returned", "resolved", "threw"} => handOffs = 1
    /\ (outcome = "rejected" /\ handOffs = 0) =>
          \E s \in layerPlan.steps : ShapeViolationEscaped(s)

\* In the join plan both start steps gave promises, C was dispatched by the later of them
\* and returned a future too; child hand-off was entered once, after all of them.
C19_Witness ==
    /\ layerPlan.name = "join"
    /\ size = MaxSize
    /\ starterPromises = {"A", "B"}
    /\ steps["B"].execute.mode = "async"
    /\ steps["C"].execute.mode = "async"
    /\ handOffs = 1
    /\ outcome = "resolved"

\* The execute of step s raised synchronously.
RaisedSynchronously(s) == dispatched[s].ran /\ dispatched[s].result.t = "throw"

\* C20: once executeBucket has been called, every start step has been dispatched, every
\* dependent of a completed step whose dependencies are all published has been dispatched,
\* a step that raised synchronously has not failed the executor (it is completed, or its
\* error column is being settled), and as long as the future of some step or of its
\* column is outstanding executeBucket has not returned, thrown or fulfilled its promise:
\* whatever raised before or after them.
C20_RaiseDoesNotStopSiblings ==
    outcome # "none" =>
        /\ \A i \in 1..Len(layerPlan.startSteps) : dispatched[layerPlan.startSteps[i]].ran
        /\ \A s \in layerPlan.steps :
              phase[s] = "done" =>
                  \A i \in 1..Len(layerPlan.dependentPlans[s]) :
                      DependenciesPublished(layerPlan.dependentPlans[s][i]) =>
                          dispatched[layerPlan.dependentPlans[s][i]].ran
        /\ \A s \in layerPlan.steps :
              RaisedSynchronously(s) => phase[s] \in {"done", "settling"}
        /\ \A s \in layerPlan.steps :
              phase[s] \in {"awaiting", "settling"} => outcome \in {"pending", "rejected"}

\* In the join plan the first start step A raised; the second, B, was dispatched all the
\* same and the executor waits for its future.
C20_Witness ==
    /\ layerPlan.name = "join"
    /\ layerPlan.startSteps = <<"A", "B">>
    /\ RaisedSynchronously("A")
    /\ dispatched["B"].ran
    /\ phase["B"] = "awaiting"
    /\ outcome = "pending"
    /\ "B" \in starterPromises

\* The result R that the execute of s returned (or its future fulfilled with) for the
\* columns it was passed, before any merge.
ReturnedByExecute(s) == Execute(s, steps[s].execute, dispatched[s].args).col

\* C21 as stated: when a step run by the error-aware invoker with errored rows returns a
\* result whose length is not bucket.size minus the number of errored rows, that is a
\* failure: the only column ever published for the step is one of errors, never the
\* result padded or cut to bucket.size.
C21_MergeAssertsConsumed ==
    \A s \in layerPlan.steps :
        (/\ ErrorAware(s) /\ ErroredRows(s) # {} /\ ReturnedColumn(s)
         /\ Len(ReturnedByExecute(s)) # size - Cardinality(ErroredRows(s))
         /\ s \in Published) =>
            \A i \in 1..size : isCrystalError(store[s][i])

\* A step marked isSyncAndSafe broke its promise: it returned a future, or a column with
\* a future among its entries, or a column with an ErrorValue at a row where none of its
\* inputs had one.
BrokePromise(s) ==
    /\ steps[s].isSyncAndSafe
    /\ ReturnedColumn(s) /\ ~WrongLength(s)
    /\ \/ dispatched[s].result.t = "promise"
       \/ \E i \in 1..size : isPromiseLike(dispatched[s].result.col[i])
       \/ \E i \in (1..size) \ ErroredRows(s) : isCrystalError(dispatched[s].result.col[i])

\* C22 as stated: a step marked isSyncAndSafe that broke its promise gets no column, and
\* executeBucket neither returns nor fulfils its promise.
C22_BrokenPromiseFatal ==
    \A s \in layerPlan.steps :
        BrokePromise(s) =>
            /\ s \notin Published
            /\ outcome \notin {"returned", "resolved"}

\* The column of s went through Promise.allSettled and was published by its handler.
Reduced(s) == dispatched[s].ran /\ dispatched[s].reduced

\* What C23 says of every row of a reduced column but the tag of a rejected entry, and of
\* bucket.hasErrors at the moment the column was stored.
ReducedRowsAndFlag(s) ==
    /\ Len(store[s]) = Len(settling[s])
    /\ \A i \in 1..Len(settling[s]) :
          IF isPromiseLike(settling[s][i])
          THEN IF settling[s][i].settles = "fulfilled"
               THEN store[s][i] = settling[s][i].payload
               ELSE /\ isCrystalError(store[s][i])
                    /\ store[s][i].originalError = settling[s][i].payload
          ELSE store[s][i] = settling[s][i]
    /\ SeesRejection(settling[s]) => dispatched[s].errorsWhenStored
    /\ ~SeesRejection(settling[s]) =>
           dispatched[s].errorsWhenStored = dispatched[s].errorsBefore

\* C23 as stated: a column published on the reduction path has at every row the value its
\* future entry fulfilled with, or an ErrorValue tagged with the step's id where the entry
\* rejected, or the plain entry itself; hasErrors became true exactly if an entry rejected
\* and is otherwise as the handler found it.
C23_ReducedColumn ==
    \A s \in layerPlan.steps :
        Reduced(s) =>
            /\ ReducedRowsAndFlag(s)
            /\ \A i \in 1..Len(settling[s]) :
                  (isPromiseLike(settling[s][i]) /\ settling[s][i].settles = "rejected") =>
                      OriginatingStepId(store[s][i]) = s

\* C24: no turn changes or removes a column the store holds, be it a step's or one the
\* bucket was created with, and a step's column has been assigned once if the store
\* holds it and never otherwise.
C24_ColumnsWrittenOnce ==
    [][/\ \A d \in DOMAIN store : d \in DOMAIN store' /\ store'[d] = store[d]
       /\ \A s \in layerPlan.steps :
             dispatched'[s].ran =>
                 dispatched'[s].writes = (IF s \in DOMAIN store' THEN 1 ELSE 0)]_vars

\* In a bucket created with a column of the parent, C was completed in a later turn than A
\* and B, whose columns and the parent's the store still holds; and a step whose first
\* completion attempt failed validation has its column of errors, assigned once.
C24_Witness ==
    \/ /\ layerPlan.name = "join"
       /\ steps["B"].execute.mode = "async"
       /\ steps["C"].execute.mode = "async"
       /\ {RootId, "A", "B", "C"} \subseteq DOMAIN store
    \/ /\ layerPlan.name = "chain"
       /\ steps["A"].execute.mode = "async"
       /\ WrongLength("B") /\ dispatched["B"].result.t = "column"
       /\ ~dispatched["B"].hadErrors
       /\ "B" \in DOMAIN store /\ dispatched["B"].writes = 1

\* The steps of the layer plan that s depends on.
DirectDependencies(s) ==
    {layerPlan.dependencies[s][i] : i \in 1..Len(layerPlan.dependencies[s])}
        \cap layerPlan.steps

RECURSIVE Upstream(_)
\* The steps that s depends on, directly or through other steps.
Upstream(s) == DirectDependencies(s) \cup UNION {Upstream(d) : d \in DirectDependencies(s)}

\* No step of S depends on another step of S.
IsAntichain(S) == \A s \in S : Upstream(s) \cap S = {}

\* The width of the layer plan's DAG: the size of its largest antichain.
Width ==
    CHOOSE w \in 0..Cardinality(layerPlan.steps) :
        /\ \E S \in SUBSET layerPlan.steps : IsAntichain(S) /\ Cardinality(S) = w
        /\ \A S \in SUBSET layerPlan.steps : IsAntichain(S) => Cardinality(S) <= w

\* C25: the steps in progress are pending; each has all its dependency columns published;
\* none depends, directly or through other steps, on a step that is still pending (in
\* progress or not yet dispatched) or has no column; so they form an antichain of the DAG
\* and are no more than its width.
C25_InFlightAntichain ==
    /\ inProgressSteps \subseteq pendingSteps
    /\ \A s \in inProgressSteps :
          /\ DependenciesPublished(s)
          /\ Upstream(s) \cap pendingSteps = {}
          /\ Upstream(s) \subseteq Published
    /\ IsAntichain(inProgressSteps)
    /\ Cardinality(inProgressSteps) <= Width

\* B and C of the diamond are in flight together, as many as the diamond is wide, while
\* their dependency A is published and their dependent D waits.
C25_Witness ==
    /\ layerPlan.name = "diamond"
    /\ inProgressSteps = {"B", "C"}
    /\ Width = 2
    /\ "A" \in Published
    /\ "D" \in pendingSteps \ inProgressSteps

\* The steps one of whose handlers waits for its turn in state st.
Waiting(st) == {s \in layerPlan.steps : st.phase[s] \in {"awaiting", "settling"}}

\* The turn of the handler of step s that waits in state st.
Turn(st, s) ==
    The({
        CASE b.phase[s] = "settling" -> ThenAllSettled(b, s)
          [] b.phase[s] = "awaiting" /\ b.future[s].ok -> ThenFulfilled(b, s)
          [] OTHER -> ThenRejected(b, s)
      : b \in {st}})

RECURSIVE RunToEnd(_)
\* The state in which no handler waits any more, reached from st by one fixed order of
\* turns (the waiting step that CHOOSE picks runs first).
RunToEnd(st) ==
    The({
        IF Waiting(b) = {} THEN b ELSE RunToEnd(Turn(b, CHOOSE s \in Waiting(b) : TRUE))
      : b \in {st}})

\* What C26 compares: the store, hasErrors and the columns each step was invoked with.
ResultOf(st) ==
    The({
        [store |-> b.store, hasErrors |-> b.hasErrors,
         args |-> [s \in layerPlan.steps |->
                      IF b.dispatched[s].ran THEN b.dispatched[s].args ELSE <<>>]]
      : b \in {st}})

\* No step function puts an ErrorValue of its own into its column.
EmitsNoErrorValues == \A s \in layerPlan.steps : steps[s].execute.entry # "err"

\* The result that the fixed order of turns leads to from the current state.
ResultInFixedOrder == ResultOf(RunToEnd(Current))

\* C26 without its condition on the step functions.
C26_OrderIndependentWhateverStepsEmit ==
    [][outcome # "none" => ResultInFixedOrder' = ResultInFixedOrder]_vars

\* C26: when no step function emits ErrorValues (and the bucket starts with hasErrors true
\* if its store holds one), whichever handler takes the next turn after executeBucket's
\* call, the fixed order of turns leads from the state after it to the same store,
\* hasErrors and invocation inputs as from the state before it.  Hence every order of
\* settlements ends, from the state executeBucket's call left, in the one result the
\* fixed order gives.
C26_SettleOrderIndependent ==
    [][(outcome # "none" /\ EmitsNoErrorValues) =>
           ResultInFixedOrder' = ResultInFixedOrder]_vars

\* B of the fork was dispatched while hasErrors was false and invoked directly; X's
\* future rejected in a later turn and set hasErrors; every handler has run.
C26_Witness ==
    /\ layerPlan.name = "fork"
    /\ EmitsNoErrorValues
    /\ Waiting(Current) = {}
    /\ dispatched["B"].ran /\ ~dispatched["B"].hadErrors
    /\ steps["X"].execute.mode = "reject"
    /\ hasErrors
    /\ {"A", "B", "X"} \subseteq Published

=============================================================================
